---------------------------- MODULE Spec2Model ----------------------------
(***************************************************************************)
(* Model of app.py: the Flask handler NER_analysis of the route            *)
(* /get_icd11_codes_for_sentence, the NER inference step, the bearer token *)
(* request, the entity-text normalisation and the per-entity WHO ICD-11    *)
(* search loop of get_WHO_codes.                                           *)
(*                                                                         *)
(* Strings whose content the code inspects (entity texts) are sequences of *)
(* one-character strings.  The spaCy model, the token endpoint and the     *)
(* search endpoint are the environment: what they answer is chosen         *)
(* nondeterministically from small sets.                                   *)
(***************************************************************************)
EXTENDS Integers, Sequences, FiniteSets, TLC

VARIABLES
    pc,                 \* position of the request handler
    input_data_dict,    \* the parsed JSON body: the set of its field names
    ent_and_label_list, \* the mentions the model yielded: <<text, label>> pairs
    token,              \* the bearer token held by get_WHO_codes
    idx,                \* 1-based position of the for loop of get_WHO_codes
    res_dict,           \* the result map: normalized token -> top candidates
    response,           \* the last answer of the search endpoint
    output_data_dict,   \* the response body being assembled
    http_status,        \* status of the HTTP answer, 0 while there is none
    raised,             \* the exception that left the handler, "" if none
    trace,              \* the model calls and network requests made, in order
    entity_text,        \* clean_entity_token alone: the text given
    variant,            \* a text differing from it in outer whitespace and case
    cleaned,            \* clean_entity_token(entity_text)
    cleaned_variant,    \* clean_entity_token(variant)
    recleaned,          \* clean_entity_token(cleaned)
    cpc                 \* position of the normalisation runs

vars == <<pc, input_data_dict, ent_and_label_list, token, idx, res_dict,
          response, output_data_dict, http_status, raised, trace,
          entity_text, variant, cleaned, cleaned_variant, recleaned, cpc>>

handler_vars == <<pc, input_data_dict, ent_and_label_list, token, idx,
                  res_dict, response, output_data_dict, http_status, raised,
                  trace>>

clean_vars == <<entity_text, variant, cleaned, cleaned_variant, recleaned, cpc>>

-----------------------------------------------------------------------------
(* Bounds of the model *)

MaxMentions == 2        \* mentions in a batch of the request handler
MaxCands == 4           \* destinationEntities of one long search answer
MaxLen == 3             \* characters of an enumerated entity text
MaxPad == 1             \* characters a variant may grow beyond MaxLen

(* Program constants *)

TopN == 3               \* score_and_icd11_code[:3]

-----------------------------------------------------------------------------
(* Sequences *)

\* the sequences over S of length at most n, as an enumerated set
SeqsUpTo(S, n) == { s : s \in UNION { [1..k -> S] : k \in 0..n } }

Take(s, n) == SubSeq(s, 1, IF Len(s) < n THEN Len(s) ELSE n)

-----------------------------------------------------------------------------
(* clean_entity_token: entity_text.strip().lower() *)

Whitespace == {" ", "\t"}

\* str.lower() on one character of the alphabet used here
LowerChar(c) ==
    CASE c = "F" -> "f"
      [] c = "L" -> "l"
      [] c = "U" -> "u"
      [] c = "D" -> "d"
      [] OTHER -> c

lower(s) == [i \in DOMAIN s |-> LowerChar(s[i])]

RECURSIVE lstrip(_)
lstrip(s) ==
    IF s # <<>> /\ Head(s) \in Whitespace THEN lstrip(Tail(s)) ELSE s

RECURSIVE rstrip(_)
rstrip(s) ==
    IF s # <<>> /\ s[Len(s)] \in Whitespace
    THEN rstrip(SubSeq(s, 1, Len(s) - 1))
    ELSE s

strip(s) == rstrip(lstrip(s))

\* a slip that trims the left side only and lowercases
clean_lstrip_only(text) == lower(lstrip(text))

clean_entity_token(text) == lower(strip(text))

-----------------------------------------------------------------------------
(* sorted(score_and_icd11_code, key=lambda item: item[0], reverse=True)    *)
(* A candidate is <<score, code>>.  Python's sort is stable, also with     *)
(* reverse=True: candidates of equal score keep their order.               *)

\* x placed after every element whose score is >= its own
InsertDesc(x, s) ==
    LET k == Cardinality({ i \in DOMAIN s : s[i][1] >= x[1] })
    IN  SubSeq(s, 1, k) \o <<x>> \o SubSeq(s, k + 1, Len(s))

RECURSIVE SortedDesc(_)
SortedDesc(s) ==
    IF s = <<>> THEN <<>>
    ELSE InsertDesc(s[Len(s)], SortedDesc(SubSeq(s, 1, Len(s) - 1)))

\* a slip: truncation before the sort
TopCandidatesCutFirst(cands) == SortedDesc(Take(cands, TopN))

TopCandidates(cands) == Take(SortedDesc(cands), TopN)

-----------------------------------------------------------------------------
(* The environment: request bodies, the model's output, the two endpoints  *)

\* the JSON object bodies of a request, each as the set of its field names
Bodies == { {}, {"lang"}, {"sentence"}, {"lang", "sentence"} }

Texts == { <<"f", "l", "u">>, <<" ", "F", "l", "u", " ">>, <<"d">> }

Labels == {"DISEASE"}

Mentions == { <<text, label>> : text \in Texts, label \in Labels }

\* what the model may yield for a sentence in the request handler
Batches == SeqsUpTo(Mentions, MaxMentions)

\* what it may yield when the search answers are long: at most one mention
RankBatches == { <<>> } \cup { <<m>> : m \in Mentions }

Tokens == {"tokA", "tokB"}

\* requests.post(...).json() and r['access_token']
TokenAnswers ==
    { [kind |-> "ok", access_token |-> t] : t \in Tokens }
      \cup { [kind |-> k, access_token |-> ""] :
                k \in {"network_error", "unparsable", "no_access_token"} }

\* the items of destinationEntities, as <<score, theCode>>
Items == { <<1, "A">>, <<2, "B">>, <<2, "C">>, <<3, "D">> }

ShortBodies ==
    { <<>>,
      << <<1, "A">> >>,
      << <<1, "A">>, <<2, "B">> >>,
      << <<2, "B">>, <<1, "A">>, <<3, "D">>, <<2, "C">> >> }

LongBodies == SeqsUpTo(Items, MaxCands)

\* requests.get(...): it raises, or answers with a status and a body
\*   raises     requests.get raised (network error)
\*   json_ok    response.json() decodes the body
\*   has_field  the decoded body holds 'destinationEntities'
Answer(raises, status_code, json_ok, has_field, items) ==
    [raises |-> raises, status_code |-> status_code, json_ok |-> json_ok,
     has_field |-> has_field, destinationEntities |-> items]

\* no answer yet
NoResponse == Answer(FALSE, 0, FALSE, FALSE, <<>>)

SearchAnswers(bodies) ==
    { Answer(TRUE, 0, FALSE, FALSE, <<>>),      \* requests.get raised
      Answer(FALSE, 404, FALSE, FALSE, <<>>),   \* another status than 200
      Answer(FALSE, 200, FALSE, FALSE, <<>>),   \* 200, the body is no JSON
      Answer(FALSE, 200, TRUE, FALSE, <<>>) }   \* 200, JSON without the field
      \cup { Answer(FALSE, 200, TRUE, TRUE, b) : b \in bodies }

\* the answers in the request handler, and the long ones
ShortAnswers == SearchAnswers(ShortBodies)

LongAnswers == SearchAnswers(LongBodies)

\* how an answer of the search endpoint is recorded in the trace
AnswerKind(resp) ==
    IF resp.raises THEN "error"
    ELSE IF resp.status_code # 200 THEN "status"
    ELSE IF ~resp.json_ok THEN "200-undecodable"
    ELSE IF ~resp.has_field THEN "200-no-field"
    ELSE "200"

\* an entry of the trace: the operation, the q parameter and the token it
\* carried (or was given), how it ended, and the candidates it returned
Event(op, q, tok, result, body) ==
    [op |-> op, q |-> q, token |-> tok, result |-> result, body |-> body]

-----------------------------------------------------------------------------
(* Dictionaries *)

EmptyDict == [k \in {} |-> <<>>]

Put(d, k, v) == [x \in DOMAIN d \cup {k} |-> IF x = k THEN v ELSE d[x]]

Del(d, k) == [x \in DOMAIN d \ {k} |-> d[x]]

-----------------------------------------------------------------------------
(* The try block of the loop of get_WHO_codes: res_dict after one answer   *)

\* a slip: a failed lookup discards the entry of its token
SearchOutcomeDropOnFailure(res, key, resp) ==
    IF ~resp.raises /\ resp.status_code = 200 /\ resp.json_ok /\ resp.has_field
    THEN Put(res, key, TopCandidates(resp.destinationEntities))
    ELSE Del(res, key)

\* a slip: the first entry of a token is kept
SearchOutcomeKeepFirst(res, key, resp) ==
    IF ~resp.raises /\ resp.status_code = 200 /\ resp.json_ok /\ resp.has_field
       /\ key \notin DOMAIN res
    THEN Put(res, key, TopCandidates(resp.destinationEntities))
    ELSE res

SearchOutcome(res, key, resp) ==
    IF resp.raises THEN res                 \* requests.get raised: except
    ELSE IF resp.status_code = 200 THEN
        IF ~resp.json_ok THEN res           \* response.json() raised: except
        ELSE IF ~resp.has_field THEN res    \* KeyError: except
        ELSE LET score_and_icd11_code ==
                     IF Len(resp.destinationEntities) # 0
                     THEN resp.destinationEntities
                     ELSE <<>>
             IN  Put(res, key, TopCandidates(score_and_icd11_code))
    ELSE res                                \* "Received Status code of ..."

-----------------------------------------------------------------------------
(* The request handler *)

HandlerInit ==
    /\ pc = "idle"
    /\ input_data_dict = {}
    /\ ent_and_label_list = <<>>
    /\ token = ""
    /\ idx = 1
    /\ res_dict = EmptyDict
    /\ response = NoResponse
    /\ output_data_dict = EmptyDict
    /\ http_status = 0
    /\ raised = ""
    /\ trace = <<>>

CleanIdle ==
    /\ entity_text = <<>>
    /\ variant = <<>>
    /\ cleaned = <<>>
    /\ cleaned_variant = <<>>
    /\ recleaned = <<>>
    /\ cpc = "off"

Init == HandlerInit /\ CleanIdle

\* a POST to /get_icd11_codes_for_sentence arrives: request.get_json()
Receive ==
    /\ pc \in {"idle", "done"}
    /\ \E body \in Bodies : input_data_dict' = body
    /\ pc' = "validate"
    /\ ent_and_label_list' = <<>>
    /\ token' = ""
    /\ idx' = 1
    /\ res_dict' = EmptyDict
    /\ response' = NoResponse
    /\ output_data_dict' = EmptyDict
    /\ http_status' = 0
    /\ raised' = ""
    /\ trace' = <<>>
    /\ UNCHANGED clean_vars

mandatory_inputs == <<"sentence">>

missing_mandatory_inputs(body) ==
    SelectSeq(mandatory_inputs, LAMBDA field : field \notin body)

\* a slip: a missing field is answered as a client error
RespondBadRequest ==
    /\ pc = "jsonify"
    /\ http_status' = IF "status" \in DOMAIN output_data_dict THEN 400 ELSE 200
    /\ pc' = "done"
    /\ UNCHANGED <<input_data_dict, ent_and_label_list, token, idx, res_dict,
                   response, output_data_dict, raised, trace>>
    /\ UNCHANGED clean_vars

\* the check of the mandatory inputs
Validate ==
    /\ pc = "validate"
    /\ IF Len(missing_mandatory_inputs(input_data_dict)) # 0
       THEN /\ output_data_dict' =
                   ("status" :> "Bad Request - Found Misising Values")
                   @@ ("Missing Fields" :> missing_mandatory_inputs(input_data_dict))
            /\ pc' = "jsonify"
       ELSE /\ output_data_dict' = output_data_dict
            /\ pc' = "inference"
    /\ UNCHANGED <<input_data_dict, ent_and_label_list, token, idx, res_dict,
                   response, http_status, raised, trace>>
    /\ UNCHANGED clean_vars

\* spacy_NER_inference: the model yields the mentions of the sentence
spacy_NER_inference(batches) ==
    /\ pc = "inference"
    /\ \E pred_entity_and_label \in batches :
           ent_and_label_list' = pred_entity_and_label
    /\ trace' = Append(trace, Event("infer", <<>>, "", "ok", <<>>))
    /\ pc' = "get_WHO_codes"
    /\ UNCHANGED <<input_data_dict, token, idx, res_dict, response,
                   output_data_dict, http_status, raised>>
    /\ UNCHANGED clean_vars

\* a slip: no early return, the token is requested for an empty batch too
get_WHO_codes_entry_no_guard ==
    /\ pc = "get_WHO_codes"
    /\ res_dict' = EmptyDict
    /\ pc' = "get_bearer_token"
    /\ UNCHANGED <<input_data_dict, ent_and_label_list, token, idx, response,
                   output_data_dict, http_status, raised, trace>>
    /\ UNCHANGED clean_vars

\* get_WHO_codes up to the token request
get_WHO_codes_entry ==
    /\ pc = "get_WHO_codes"
    /\ res_dict' = EmptyDict
    /\ pc' = IF Len(ent_and_label_list) = 0 THEN "return" ELSE "get_bearer_token"
    /\ UNCHANGED <<input_data_dict, ent_and_label_list, token, idx, response,
                   output_data_dict, http_status, raised, trace>>
    /\ UNCHANGED clean_vars

\* a slip: a failed token request is swallowed and the loop runs without token
get_bearer_token_swallow ==
    /\ pc = "get_bearer_token"
    /\ \E r \in TokenAnswers :
         /\ trace' = Append(trace, Event("token", <<>>, r.access_token, r.kind, <<>>))
         /\ token' = r.access_token
         /\ pc' = "for"
    /\ idx' = 1
    /\ UNCHANGED <<input_data_dict, ent_and_label_list, res_dict, response,
                   output_data_dict, http_status, raised>>
    /\ UNCHANGED clean_vars

\* get_bearer_token: one POST to the token endpoint.  A failure raises
\* ValueError, which nothing catches: it leaves get_WHO_codes and the handler,
\* and the framework answers the request with status 500.
get_bearer_token ==
    /\ pc = "get_bearer_token"
    /\ \E r \in TokenAnswers :
         /\ trace' = Append(trace, Event("token", <<>>, r.access_token, r.kind, <<>>))
         /\ IF r.kind = "ok"
            THEN /\ token' = r.access_token
                 /\ pc' = "for"
                 /\ raised' = raised
                 /\ http_status' = http_status
            ELSE /\ token' = token
                 /\ raised' = "ValueError"
                 /\ http_status' = 500
                 /\ pc' = "done"
    /\ idx' = 1
    /\ UNCHANGED <<input_data_dict, ent_and_label_list, res_dict, response,
                   output_data_dict>>
    /\ UNCHANGED clean_vars

\* a slip: the token is requested again before every search
search_step_fresh_token(answers) ==
    /\ pc = "for"
    /\ idx <= Len(ent_and_label_list)
    /\ LET ent_text == clean_entity_token(ent_and_label_list[idx][1])
       IN  \E resp \in answers :
             /\ response' = resp
             /\ trace' = trace \o << Event("token", <<>>, token, "ok", <<>>),
                                     Event("search", ent_text, token, AnswerKind(resp),
                                           resp.destinationEntities) >>
             /\ res_dict' = SearchOutcome(res_dict, ent_text, resp)
    /\ idx' = idx + 1
    /\ pc' = IF idx = Len(ent_and_label_list) THEN "return" ELSE "for"
    /\ UNCHANGED <<input_data_dict, ent_and_label_list, token,
                   output_data_dict, http_status, raised>>
    /\ UNCHANGED clean_vars

\* one iteration of the for loop: normalise, GET, handle the answer
search_step(answers) ==
    /\ pc = "for"
    /\ idx <= Len(ent_and_label_list)
    /\ LET ent_text == clean_entity_token(ent_and_label_list[idx][1])
       IN  \E resp \in answers :
             /\ response' = resp
             /\ trace' = Append(trace,
                                Event("search", ent_text, token, AnswerKind(resp),
                                      resp.destinationEntities))
             /\ res_dict' = SearchOutcome(res_dict, ent_text, resp)
    /\ idx' = idx + 1
    /\ pc' = IF idx = Len(ent_and_label_list) THEN "return" ELSE "for"
    /\ UNCHANGED <<input_data_dict, ent_and_label_list, token,
                   output_data_dict, http_status, raised>>
    /\ UNCHANGED clean_vars

\* return res_dict; output_data_dict['predictions'] = ent_icdcode_dict
get_WHO_codes_return ==
    /\ pc = "return"
    /\ output_data_dict' = ("predictions" :> res_dict) @@ output_data_dict
    /\ pc' = "jsonify"
    /\ UNCHANGED <<input_data_dict, ent_and_label_list, token, idx, res_dict,
                   response, http_status, raised, trace>>
    /\ UNCHANGED clean_vars

\* return jsonify(output_data_dict): the answer has status 200
Respond ==
    /\ pc = "jsonify"
    /\ http_status' = 200
    /\ pc' = "done"
    /\ UNCHANGED <<input_data_dict, ent_and_label_list, token, idx, res_dict,
                   response, output_data_dict, raised, trace>>
    /\ UNCHANGED clean_vars

Next ==
    \/ Receive
    \/ Validate
    \/ spacy_NER_inference(Batches)
    \/ get_WHO_codes_entry
    \/ get_bearer_token
    \/ search_step(ShortAnswers)
    \/ get_WHO_codes_return
    \/ Respond

Spec == Init /\ [][Next]_vars

\* the same handler, with few mentions and long search answers
NextRank ==
    \/ Receive
    \/ Validate
    \/ spacy_NER_inference(RankBatches)
    \/ get_WHO_codes_entry
    \/ get_bearer_token
    \/ search_step(LongAnswers)
    \/ get_WHO_codes_return
    \/ Respond

SpecRank == Init /\ [][NextRank]_vars

-----------------------------------------------------------------------------
(* clean_entity_token on its own: a text, a variant of it, their keys      *)

Chars == {" ", "\t", "F", "f", "u"}

FluPadded == <<" ", " ", "F", "l", "u", " ", " ">>

CleanInputs == SeqsUpTo(Chars, MaxLen) \cup Texts \cup {FluPadded}

\* the other case of a letter
SwapCase(c) ==
    CASE c = "F" -> "f" [] c = "f" -> "F"
      [] c = "L" -> "l" [] c = "l" -> "L"
      [] c = "U" -> "u" [] c = "u" -> "U"
      [] c = "D" -> "d" [] c = "d" -> "D"
      [] OTHER -> c

\* the texts one change away: a whitespace character more or less at either
\* end, or one letter in its other case
OneChange(s) ==
    { <<w>> \o s : w \in Whitespace }
      \cup { s \o <<w>> : w \in Whitespace }
      \cup (IF s # <<>> /\ Head(s) \in Whitespace THEN { Tail(s) } ELSE {})
      \cup (IF s # <<>> /\ s[Len(s)] \in Whitespace
            THEN { SubSeq(s, 1, Len(s) - 1) } ELSE {})
      \cup { [s EXCEPT ![i] = SwapCase(s[i])] : i \in DOMAIN s }

CleanInit ==
    /\ entity_text \in CleanInputs
    /\ variant = entity_text
    /\ cleaned = <<>>
    /\ cleaned_variant = <<>>
    /\ recleaned = <<>>
    /\ cpc = "vary"

\* the variant changes by one step
Vary ==
    /\ cpc = "vary"
    /\ \E v \in OneChange(variant) :
         /\ Len(v) <= (IF Len(variant) > MaxLen + MaxPad
                       THEN Len(variant) ELSE MaxLen + MaxPad)
         /\ variant' = v
    /\ UNCHANGED <<entity_text, cleaned, cleaned_variant, recleaned, cpc>>
    /\ UNCHANGED handler_vars

\* both texts are normalised
CleanBoth ==
    /\ cpc = "vary"
    /\ cleaned' = clean_entity_token(entity_text)
    /\ cleaned_variant' = clean_entity_token(variant)
    /\ cpc' = "cleaned"
    /\ UNCHANGED <<entity_text, variant, recleaned>>
    /\ UNCHANGED handler_vars

\* the key is normalised again
CleanAgain ==
    /\ cpc = "cleaned"
    /\ recleaned' = clean_entity_token(cleaned)
    /\ cpc' = "recleaned"
    /\ UNCHANGED <<entity_text, variant, cleaned, cleaned_variant>>
    /\ UNCHANGED handler_vars

NextClean == Vary \/ CleanBoth \/ CleanAgain

InitClean == HandlerInit /\ CleanInit

SpecClean == InitClean /\ [][NextClean]_vars

-----------------------------------------------------------------------------
(* What the trace tells *)

Searches == SelectSeq(trace, LAMBDA e : e.op = "search")

TokenRequests == SelectSeq(trace, LAMBDA e : e.op = "token")

Inferences == SelectSeq(trace, LAMBDA e : e.op = "infer")

TokenFailed == \E i \in DOMAIN trace : trace[i].op = "token" /\ trace[i].result # "ok"

\* the normalized token of the i-th mention of the batch
KeyOf(i) == clean_entity_token(ent_and_label_list[i][1])

\* the mentions looked up so far whose answer was a 200 the code could read
Served == { i \in 1..Len(Searches) : Searches[i].result = "200" }

\* the last served mention of normalized token k
LastServed(k) ==
    CHOOSE i \in Served :
        /\ KeyOf(i) = k
        /\ \A j \in Served : KeyOf(j) = k => j <= i

\* get_WHO_codes has returned its map
Returned == pc \in {"jsonify", "done"} /\ "predictions" \in DOMAIN output_data_dict

-----------------------------------------------------------------------------
(* C1: whatever the search endpoint answers per mention (200, another      *)
(* status, an exception), get_WHO_codes looks every mention up, returns    *)
(* normally, and the keys of its map are exactly the normalized tokens of  *)
(* the mentions answered with a 200 whose body could be read.              *)
C1_KeysAreServedTokens ==
    /\ Len(Searches) <= Len(ent_and_label_list)
    /\ DOMAIN res_dict = { KeyOf(i) : i \in Served }
    /\ Searches # <<>> => raised = ""
    /\ pc = "for" => Len(Searches) = idx - 1
    /\ (pc \in {"return", "jsonify", "done"} /\ ~TokenFailed
          /\ "sentence" \in input_data_dict /\ Inferences # <<>>)
         => Len(Searches) = Len(ent_and_label_list)
    /\ Returned =>
         /\ raised = ""
         /\ DOMAIN output_data_dict["predictions"] = { KeyOf(i) : i \in Served }

\* a batch of two mentions of different tokens returned, the first answered
\* with another status, the second served
C1_Witness ==
    /\ Returned
    /\ Len(ent_and_label_list) = 2
    /\ KeyOf(1) # KeyOf(2)
    /\ Searches[1].result = "status"
    /\ Searches[2].result = "200"
    /\ DOMAIN output_data_dict["predictions"] = {KeyOf(2)}

-----------------------------------------------------------------------------
(* C2: every value of the map has at most 3 candidates, in non-increasing  *)
(* order of score, taken from the answer of its entity, and no candidate   *)
(* of that answer left out has a higher score than one kept.               *)
IsTopOf(v, body) ==
    /\ Len(v) = (IF Len(body) < 3 THEN Len(body) ELSE 3)
    /\ \A i, j \in DOMAIN v : i < j => v[i][1] >= v[j][1]
    /\ \E p \in [DOMAIN v -> DOMAIN body] :
         /\ \A i, j \in DOMAIN v : i # j => p[i] # p[j]
         /\ \A i \in DOMAIN v : v[i] = body[p[i]]
         /\ \A m \in DOMAIN body \ { p[i] : i \in DOMAIN v } :
              \A i \in DOMAIN v : body[m][1] <= v[i][1]

-----------------------------------------------------------------------------
(* C3: when the token request fails for a batch with a mention, no search  *)
(* GET is made, get_WHO_codes ends with an error and the request gets no   *)
(* predictions.                                                            *)
C3_TokenFailureAborts ==
    TokenFailed =>
        /\ Len(ent_and_label_list) >= 1
        /\ Searches = <<>>
        /\ raised = "ValueError"
        /\ pc = "done"
        /\ "predictions" \notin DOMAIN output_data_dict
        /\ res_dict = EmptyDict

C3_Witness ==
    /\ TokenFailed
    /\ pc = "done"
    /\ Len(ent_and_label_list) = 2
    /\ trace[Len(trace)].result = "no_access_token"

-----------------------------------------------------------------------------
(* C4: in a request with `sentence` the trace is: the inference, then one  *)
(* token request, then one search per mention in the order of the          *)
(* mentions, each carrying the token that request returned.                *)
C4_FixedOrder ==
    /\ Len(Inferences) <= 1
    /\ Len(TokenRequests) <= 1
    /\ trace # <<>> => trace[1].op = "infer"
    /\ Len(trace) >= 2 => trace[2].op = "token" /\ Len(ent_and_label_list) >= 1
    /\ \A i \in DOMAIN trace : i >= 3 =>
         /\ trace[i].op = "search"
         /\ i - 2 <= Len(ent_and_label_list)
         /\ trace[i].q = KeyOf(i - 2)
         /\ trace[2].result = "ok"
         /\ trace[i].token = trace[2].token
    /\ (Returned /\ Len(ent_and_label_list) >= 1)
         => Len(trace) = 2 + Len(ent_and_label_list)

C4_Witness ==
    /\ Returned
    /\ Len(ent_and_label_list) = 2
    /\ Len(trace) = 4
    /\ trace[2].token = "tokB"
    /\ trace[3].token = "tokB"
    /\ trace[4].token = "tokB"
    /\ trace[3].q # trace[4].q

-----------------------------------------------------------------------------
(* C5: when the model yields no mention, get_WHO_codes returns an empty    *)
(* map without a token request or a search, and the body of the answer is  *)
(* {"predictions": {}}.                                                    *)
C5_NoMentionsNoNetwork ==
    (Inferences # <<>> /\ ent_and_label_list = <<>>) =>
        /\ trace = << Event("infer", <<>>, "", "ok", <<>>) >>
        /\ raised = ""
        /\ res_dict = EmptyDict
        /\ pc \notin {"get_bearer_token", "for"}
        /\ pc \in {"jsonify", "done"} =>
             output_data_dict = ("predictions" :> EmptyDict)
        /\ pc = "done" => http_status = 200

C5_Witness ==
    /\ pc = "done"
    /\ Inferences # <<>>
    /\ ent_and_label_list = <<>>
    /\ output_data_dict = ("predictions" :> EmptyDict)

-----------------------------------------------------------------------------
(* C6: a body without `sentence` is answered with                          *)
(* {status: "Bad Request - Found Missing Values",                          *)
(*  "Missing Fields": ["sentence"]}, without predictions, without          *)
(* inference, token request or search.                                     *)
C6_MissingSentenceBody ==
    (pc = "done" /\ "sentence" \notin input_data_dict) =>
        /\ output_data_dict =
               ("status" :> "Bad Request - Found Missing Values")
               @@ ("Missing Fields" :> <<"sentence">>)
        /\ trace = <<>>

-----------------------------------------------------------------------------
(* C7: a 200 answer whose body has `destinationEntities` absent or empty   *)
(* stores the mention's token with an empty list.                          *)
C7_AbsentOrEmptyStored ==
    \A i \in DOMAIN Searches :
        (Searches[i].result \in {"200", "200-no-field"} /\ Searches[i].body = <<>>
           /\ \A j \in DOMAIN Searches : j > i => KeyOf(j) # KeyOf(i))
          => /\ KeyOf(i) \in DOMAIN res_dict
             /\ res_dict[KeyOf(i)] = <<>>

-----------------------------------------------------------------------------
(* C8 as stated: every POST is answered with status 200.                   *)
C8_Always200 == pc = "done" => http_status = 200

(* C8 amended: a POST is answered with status 200 when `sentence` is       *)
(* missing, when no mention is found and whatever the searches answer; it  *)
(* is answered with status 500 when the token request fails.               *)
C8_200UnlessTokenFails ==
    /\ pc = "done" => http_status = (IF TokenFailed THEN 500 ELSE 200)
    /\ pc # "done" => http_status = 0
    /\ http_status = 500 <=> raised = "ValueError"

\* answered 200 although every search of the batch failed
C8_Witness ==
    /\ pc = "done"
    /\ http_status = 200
    /\ Len(Searches) = 2
    /\ Searches[1].result = "error"
    /\ Searches[2].result = "status"

-----------------------------------------------------------------------------
(* C9: the map holds one entry per normalized token, and its value is the  *)
(* candidate list of the last mention of that token that was served: a     *)
(* later served mention overwrites, a later failed one changes nothing.    *)
C9_LastWriteWins ==
    \A k \in DOMAIN res_dict :
        /\ \E i \in Served : KeyOf(i) = k
        /\ res_dict[k] = TopCandidates(Searches[LastServed(k)].body)

\* two mentions of one token, spelled differently: both served, with
\* different lists; the second list is the entry
C9_Witness ==
    /\ Returned
    /\ Len(ent_and_label_list) = 2
    /\ ent_and_label_list[1][1] # ent_and_label_list[2][1]
    /\ KeyOf(1) = KeyOf(2)
    /\ Searches[1].result = "200" /\ Searches[1].body = << <<1, "A">> >>
    /\ Searches[2].result = "200" /\ Searches[2].body = << <<1, "A">>, <<2, "B">> >>
    /\ DOMAIN res_dict = {KeyOf(1)}
    /\ res_dict[KeyOf(1)] = << <<2, "B">>, <<1, "A">> >>

-----------------------------------------------------------------------------
(* C10: normalising a normalized text changes nothing, and texts that      *)
(* differ only in surrounding whitespace and letter case have one key:     *)
(* "  Flu  " and "flu" both give "flu".                                    *)
C10_CleanIdempotent ==
    /\ cpc = "recleaned" => recleaned = cleaned
    /\ cpc \in {"cleaned", "recleaned"} => cleaned_variant = cleaned
    /\ (cpc \in {"cleaned", "recleaned"} /\ entity_text = FluPadded)
         => cleaned = <<"f", "l", "u">>

C10_Witness ==
    /\ cpc = "recleaned"
    /\ entity_text = FluPadded
    /\ variant = <<"f", "l", "u">>
    /\ cleaned = <<"f", "l", "u">>
    /\ cleaned_variant = <<"f", "l", "u">>
    /\ recleaned = <<"f", "l", "u">>

=============================================================================
